---- MODULE Spec2Model ----
(***************************************************************************)
(* redis-schematics: schematics records persisted in Redis, in the Simple  *)
(* layout (one key per record) and the Hash layout (one hash per type).    *)
(* The model follows src/redis_schematics/__init__.py and utils.py; the    *)
(* record type is the one of src/tests/test_integration.py.                *)
(***************************************************************************)
EXTENDS Integers, Sequences, FiniteSets, TLC

(***************************************************************************)
(* Bounds of the model.                                                    *)
(***************************************************************************)
\* ids of the records the application builds are 0..MaxId
MaxId == 1
\* the type's __expire__, in seconds, when it is configured
ExpireSecs == 2

(***************************************************************************)
(* Python values: None, int, str and list, tagged with their type.         *)
(***************************************************************************)
None == <<"None">>
IntV(i) == <<"int", i>>
StrV(s) == <<"str", s>>
ListV(q) == <<"list", q>>

IsNone(v) == v[1] = "None"
IsInt(v) == v[1] = "int"
IsStr(v) == v[1] = "str"
IsList(v) == v[1] = "list"

\* Python's ==
PyEq(a, b) == a[1] = b[1] /\ a = b

\* Python's truth value of None, an int or a str
Truthy(v) ==
    CASE IsNone(v) -> FALSE
      [] IsInt(v) -> v[2] # 0
      [] IsStr(v) -> v[2] # ""
      [] OTHER -> TRUE

Digits == <<"0", "1", "2", "3", "4", "5", "6", "7", "8", "9">>

\* str(i) of a non-negative int
RECURSIVE ToStr(_)
ToStr(i) == IF i < 10 THEN Digits[i + 1] ELSE ToStr(i \div 10) \o Digits[(i % 10) + 1]

\* int(s) of a string of decimal digits
DigitVal(c) == CHOOSE d \in 0..9 : Digits[d + 1] = c
RECURSIVE ParseInt(_)
ParseInt(s) ==
    IF Len(s) = 1 THEN DigitVal(s)
    ELSE 10 * ParseInt(SubSeq(s, 1, Len(s) - 1)) + DigitVal(SubSeq(s, Len(s), Len(s)))

\* str(v) of an int or a str
PyStr(v) == IF IsInt(v) THEN ToStr(v[2]) ELSE v[2]

\* the order of characters in the strings the model uses
Alphabet == "0123456789<>ABCDEFGHIJKLMNOPQRSTUVWXYZ_abcdefghijklmnopqrstuvwxyz"
Rank(c) == CHOOSE i \in 1..Len(Alphabet) : SubSeq(Alphabet, i, i) = c

\* Python's < on two str: lexicographic
RECURSIVE StrLt(_, _)
StrLt(a, b) ==
    IF b = "" THEN FALSE
    ELSE IF a = "" THEN TRUE
    ELSE LET ca == SubSeq(a, 1, 1)
             cb == SubSeq(b, 1, 1)
         IN  IF ca = cb THEN StrLt(SubSeq(a, 2, Len(a)), SubSeq(b, 2, Len(b)))
             ELSE Rank(ca) < Rank(cb)

(***************************************************************************)
(* Dictionaries keep insertion order: a sequence of <<key, value>> pairs   *)
(* with distinct keys.                                                     *)
(***************************************************************************)
DictKeys(d) == {d[i][1] : i \in 1..Len(d)}
DictGet(d, k) == d[CHOOSE i \in 1..Len(d) : d[i][1] = k][2]
DictPut(d, k, v) ==
    IF k \in DictKeys(d)
    THEN [i \in 1..Len(d) |-> IF d[i][1] = k THEN <<k, v>> ELSE d[i]]
    ELSE Append(d, <<k, v>>)
RECURSIVE DictUpdate(_, _)
DictUpdate(d, e) ==
    IF e = <<>> THEN d ELSE DictUpdate(DictPut(d, e[1][1], e[1][2]), Tail(e))

(***************************************************************************)
(* utils.py: the filter engine.                                            *)
(***************************************************************************)
FILTER_OPS == <<"__gt", "__lt", "__gte", "__lte", "__eq", "__not", "__in", "__exclude">>

\* the outcome of a comparison: "T", "F", or "TypeError" when Python raises
Bool(b) == IF b THEN "T" ELSE "F"

\* s < r
PyLt(s, r) ==
    CASE IsInt(s) /\ IsInt(r) -> Bool(s[2] < r[2])
      [] IsStr(s) /\ IsStr(r) -> Bool(StrLt(s[2], r[2]))
      [] OTHER -> "TypeError"

\* s <= r
PyLe(s, r) ==
    CASE IsInt(s) /\ IsInt(r) -> Bool(s[2] <= r[2])
      [] IsStr(s) /\ IsStr(r) -> Bool(StrLt(s[2], r[2]) \/ s[2] = r[2])
      [] OTHER -> "TypeError"

\* s in r
PyIn(s, r) ==
    CASE IsList(r) -> Bool(\E i \in 1..Len(r[2]) : PyEq(s, r[2][i]))
      [] IsStr(r) /\ IsStr(s) ->
            Bool(\E i \in 1..(Len(r[2]) + 1) : \E j \in (i - 1)..Len(r[2]) :
                    SubSeq(r[2], i, j) = s[2])
      [] OTHER -> "TypeError"

Negate(o) == IF o = "T" THEN "F" ELSE IF o = "F" THEN "T" ELSE o

\* FILTER_OPS with __gt and __lt taken as >= and <=
ApplyOpInclusive(suffix, s, r) ==
    CASE suffix = "__gt" -> PyLe(r, s)
      [] suffix = "__lt" -> PyLe(s, r)
      [] suffix = "__gte" -> PyLe(r, s)
      [] suffix = "__lte" -> PyLe(s, r)
      [] suffix = "__eq" -> Bool(PyEq(s, r))
      [] suffix = "__not" -> Bool(~PyEq(s, r))
      [] suffix = "__in" -> PyIn(s, r)
      [] suffix = "__exclude" -> Negate(PyIn(s, r))

\* FILTER_OPS[suffix](s, r)
ApplyOp(suffix, s, r) ==
    CASE suffix = "__gt" -> PyLt(r, s)
      [] suffix = "__lt" -> PyLt(s, r)
      [] suffix = "__gte" -> PyLe(r, s)
      [] suffix = "__lte" -> PyLe(s, r)
      [] suffix = "__eq" -> Bool(PyEq(s, r))
      [] suffix = "__not" -> Bool(~PyEq(s, r))
      [] suffix = "__in" -> PyIn(s, r)
      [] suffix = "__exclude" -> Negate(PyIn(s, r))

\* k.endswith(suffix)
EndsWith(k, suffix) ==
    Len(k) >= Len(suffix) /\ SubSeq(k, Len(k) - Len(suffix) + 1, Len(k)) = suffix

\* k.startswith(prefix)
StartsWith(k, prefix) ==
    Len(k) >= Len(prefix) /\ SubSeq(k, 1, Len(prefix)) = prefix

\* k.replace(suffix, ""): every occurrence is removed, left to right
RECURSIVE Remove(_, _)
Remove(k, suffix) ==
    IF Len(k) < Len(suffix) THEN k
    ELSE IF StartsWith(k, suffix) THEN Remove(SubSeq(k, Len(suffix) + 1, Len(k)), suffix)
    ELSE SubSeq(k, 1, 1) \o Remove(SubSeq(k, 2, Len(k)), suffix)

\* get_suffix: the filters whose key ends with the suffix
RECURSIVE Suffixed(_, _)
Suffixed(filters, suffix) ==
    IF filters = <<>> THEN <<>>
    ELSE IF EndsWith(filters[1][1], suffix)
         THEN <<filters[1]>> \o Suffixed(Tail(filters), suffix)
         ELSE Suffixed(Tail(filters), suffix)

\* the filters whose key is not in used
RECURSIVE NotIn(_, _)
NotIn(filters, used) ==
    IF filters = <<>> THEN <<>>
    ELSE IF filters[1][1] \notin used
         THEN <<filters[1]>> \o NotIn(Tail(filters), used)
         ELSE NotIn(Tail(filters), used)

\* get_suffix: the same filters under their cleaned names
RECURSIVE CleanedOf(_, _)
CleanedOf(suffixed, suffix) ==
    IF suffixed = <<>> THEN <<>>
    ELSE DictUpdate(<<<<Remove(suffixed[1][1], suffix), suffixed[1][2]>>>>,
                    CleanedOf(Tail(suffixed), suffix))

\* the keys get_suffix has put in `used` over all the suffixes
UsedKeys(filters) ==
    {k \in DictKeys(filters) : \E i \in 1..Len(FILTER_OPS) : EndsWith(k, FILTER_OPS[i])}

\* group_filters_by_suffix: a dictionary suffix -> dictionary field -> value
GroupFiltersBySuffix(filters) ==
    [i \in 1..Len(FILTER_OPS) |->
        LET suffix == FILTER_OPS[i]
            cleaned == CleanedOf(Suffixed(filters, suffix), suffix)
        IN  <<suffix, IF suffix = "__eq"
                      THEN DictUpdate(cleaned, NotIn(filters, UsedKeys(filters)))
                      ELSE cleaned>>]

\* the checks match_filters makes, in its iteration order: <<suffix, field, value>>
RECURSIVE ChecksOf(_)
ChecksOf(filter_group) ==
    IF filter_group = <<>> THEN <<>>
    ELSE LET suffix == filter_group[1][1]
             category_filters == filter_group[1][2]
         IN  [i \in 1..Len(category_filters) |->
                <<suffix, category_filters[i][1], category_filters[i][2]>>]
             \o ChecksOf(Tail(filter_group))

(***************************************************************************)
(* The record type of the tests: pk, id, name, good_number.                *)
(***************************************************************************)
Fields == <<"pk", "id", "name", "good_number">>
FieldSet == {Fields[i] : i \in 1..Len(Fields)}

\* cls(): every field is None
EmptyRecord == [f \in FieldSet |-> None]

\* getattr(obj, k, None)
GetAttr(obj, k) == IF k \in FieldSet THEN obj[k] ELSE None

\* match_filters: "T", "F", or "TypeError" when an operator raises first
RECURSIVE RunChecks(_, _)
RunChecks(obj, checks) ==
    IF checks = <<>> THEN "T"
    ELSE LET o == ApplyOp(checks[1][1], GetAttr(obj, checks[1][2]), checks[1][3])
         IN  IF o = "T" THEN RunChecks(obj, Tail(checks)) ELSE o

MatchFilters(obj, filter_group) == RunChecks(obj, ChecksOf(filter_group))

\* import_data of a dictionary: the fields it names are overwritten
ImportData(rec, d) ==
    [f \in FieldSet |-> IF f \in DictKeys(d) THEN DictGet(d, f) ELSE rec[f]]

\* to_primitive: pk and name are StringType, id and good_number are IntType
ToPrimitive(rec) == [i \in 1..Len(Fields) |-> <<Fields[i], rec[Fields[i]]>>]

\* json.dumps of one primitive value
JsonToken(v) ==
    CASE IsNone(v) -> "null"
      [] IsInt(v) -> ToStr(v[2])
      [] IsStr(v) -> "\"" \o v[2] \o "\""

\* json.loads of one token
JsonValue(tok) ==
    IF tok = "null" THEN None
    ELSE IF SubSeq(tok, 1, 1) = "\"" THEN StrV(SubSeq(tok, 2, Len(tok) - 1))
    ELSE IntV(ParseInt(tok))

\* __serializer__: json.dumps of a dictionary, member by member
Serializer(prim) == [i \in 1..Len(prim) |-> <<prim[i][1], JsonToken(prim[i][2])>>]

\* __deserializer__: json.loads
Deserializer(dump) == [i \in 1..Len(dump) |-> <<dump[i][1], JsonValue(dump[i][2])>>]

(***************************************************************************)
(* BaseRedisMixin: prefix, primary key, key pattern.                       *)
(***************************************************************************)
\* str(uuid.uuid4): the string of the function object, the same at every call
UuidRepr == "<function uuid4>"

\* __unique_args__ of the test types
UniqueArgs == <<>>

\* ".".join of the unique args' values
RECURSIVE JoinArgs(_, _)
JoinArgs(rec, args) ==
    IF Len(args) = 1 THEN rec[args[1]][2]
    ELSE rec[args[1]][2] \o "." \o JoinArgs(rec, Tail(args))

\* __primary_key__: a str, or None
PrimaryKey(rec) ==
    IF Truthy(rec["pk"]) THEN StrV(PyStr(rec["pk"]))
    ELSE IF Truthy(rec["id"]) THEN StrV(PyStr(rec["id"]))
    ELSE IF UniqueArgs # <<>> THEN StrV(JoinArgs(rec, UniqueArgs))
    ELSE None

\* __prefix__: the class name
Prefix(cls) == IF cls.layout = "simple" THEN "TestSimpleModel" ELSE "TestHashModel"

\* __key_pattern__(*args): ":".join of the prefix and the args
RECURSIVE KeyPattern(_, _)
KeyPattern(cls, args) ==
    IF args = <<>> THEN Prefix(cls)
    ELSE KeyPattern(cls, SubSeq(args, 1, Len(args) - 1)) \o ":" \o args[Len(args)]

\* key raises TypeError when there is no primary key to join
HasKey(rec) == PrimaryKey(rec) # None
Key(cls, rec) == KeyPattern(cls, <<PrimaryKey(rec)[2]>>)

\* __set_key__
SetKey(cls) == KeyPattern(cls, <<>>)

(***************************************************************************)
(* The Redis database: key -> [val, ttl]. val is a string (Simple layout)  *)
(* or a hash field -> string (Hash layout); ttl is None or the seconds     *)
(* left.                                                                   *)
(***************************************************************************)
EmptyDb == [k \in {} |-> None]

Without(f, ks) == [k \in DOMAIN f \ ks |-> f[k]]
With(f, k, v) == [x \in DOMAIN f \cup {k} |-> IF x = k THEN v ELSE f[x]]

\* GET
RedisGet(db, k) == IF k \in DOMAIN db THEN db[k].val ELSE None

\* SET key value [EX ex]
RedisSet(db, k, v, ex) == With(db, k, [val |-> v, ttl |-> ex])

\* DEL key...: the database and the number of keys removed
RedisDelete(db, ks) ==
    [db |-> Without(db, ks), n |-> Cardinality(ks \cap DOMAIN db)]

\* KEYS prefix:*
RedisKeys(db, pattern) ==
    {k \in DOMAIN db : StartsWith(k, SubSeq(pattern, 1, Len(pattern) - 1))}

\* MGET key...
RedisMget(db, keys) == [i \in 1..Len(keys) |-> RedisGet(db, keys[i])]

\* HGETALL
RedisHgetall(db, hk) == IF hk \in DOMAIN db THEN db[hk].val ELSE EmptyDb

\* HGET
RedisHget(db, hk, f) ==
    IF f \in DOMAIN RedisHgetall(db, hk) THEN db[hk].val[f] ELSE None

\* HSET: a new hash has no ttl, an existing one keeps its own
RedisHset(db, hk, f, v) ==
    With(db, hk, [val |-> With(RedisHgetall(db, hk), f, v),
                  ttl |-> IF hk \in DOMAIN db THEN db[hk].ttl ELSE None])

\* HDEL that removes the first of the fields it is given, and no other
RedisHdelOne(db, hk, fs) ==
    LET h == RedisHgetall(db, hk)
        there == fs \cap DOMAIN h
        left == IF there = {} THEN h ELSE Without(h, {CHOOSE f \in there : TRUE})
    IN  [db |-> IF hk \notin DOMAIN db THEN db
                ELSE IF DOMAIN left = {} THEN Without(db, {hk})
                ELSE With(db, hk, [val |-> left, ttl |-> db[hk].ttl]),
         n |-> IF there = {} THEN 0 ELSE 1]

\* HDEL: a hash left empty is removed
RedisHdel(db, hk, fs) ==
    LET h == RedisHgetall(db, hk)
        left == Without(h, fs)
    IN  [db |-> IF hk \notin DOMAIN db THEN db
                ELSE IF DOMAIN left = {} THEN Without(db, {hk})
                ELSE With(db, hk, [val |-> left, ttl |-> db[hk].ttl]),
         n |-> Cardinality(fs \cap DOMAIN h)]

\* EXPIRE key seconds
RedisExpire(db, k, secs) ==
    IF k \in DOMAIN db THEN With(db, k, [val |-> db[k].val, ttl |-> secs]) ELSE db

\* the orders in which the store may list a set of keys
RECURSIVE Orders(_)
Orders(S) ==
    IF S = {} THEN {<<>>}
    ELSE UNION {{<<k>> \o q : q \in Orders(S \ {k})} : k \in S}

(***************************************************************************)
(* The handlers of SimpleRedisMixin and HashRedisMixin, as functions of    *)
(* the class cls = [layout, strict, expire], the database and the          *)
(* arguments. Each returns [kind, val, db]: kind is "ok" or the exception  *)
(* raised, val the value returned, db the database it leaves.              *)
(***************************************************************************)
Result(kind, val, db) == [kind |-> kind, val |-> val, db |-> db]

\* match_for_pk(pk)
MatchForPk(cls, db, pk) ==
    LET schema == ImportData(EmptyRecord, <<<<"pk", pk>>>>)
        result == IF cls.layout = "simple"
                  THEN RedisGet(db, Key(cls, schema))
                  ELSE RedisHget(db, SetKey(cls), Key(cls, schema))
    IN  IF ~HasKey(schema) THEN Result("TypeError", None, db)
        ELSE IF result = None THEN Result("NotFound", None, db)
        ELSE Result("ok", ImportData(schema, Deserializer(result)), db)

\* _all_keys()
AllKeys(cls, db) ==
    IF cls.layout = "simple"
    THEN RedisKeys(db, KeyPattern(cls, <<"*">>))
    ELSE DOMAIN RedisHgetall(db, SetKey(cls))

\* all(); keys is what _all_keys() returned, in the order of the store, and
\* db the database at the time of the mget: __deserializer__ raises
\* TypeError on the None of a key that is no longer there
All(cls, db, keys) ==
    IF cls.layout = "simple"
    THEN IF cls.strict THEN Result("StrictPerformanceException", None, db)
         ELSE IF keys = <<>> THEN Result("ok", <<>>, db)
         ELSE LET results == RedisMget(db, keys)
              IN  IF \E i \in 1..Len(results) : results[i] = None
                  THEN Result("TypeError", None, db)
                  ELSE
                  Result("ok", [i \in 1..Len(results) |->
                                   ImportData(EmptyRecord, Deserializer(results[i]))], db)
    ELSE LET h == RedisHgetall(db, SetKey(cls))
         IN  Result("ok", [i \in 1..Len(keys) |->
                              ImportData(EmptyRecord, Deserializer(h[keys[i]]))], db)

\* the elements of a sequence of records that match the filter group
RECURSIVE Matching(_, _)
Matching(recs, filter_group) ==
    IF recs = <<>> THEN <<>>
    ELSE IF MatchFilters(recs[1], filter_group) = "T"
         THEN <<recs[1]>> \o Matching(Tail(recs), filter_group)
         ELSE Matching(Tail(recs), filter_group)

\* filter(**kwargs)
Filter(cls, db, keys, kwargs) ==
    IF cls.strict THEN Result("StrictPerformanceException", None, db)
    ELSE LET filter_group == GroupFiltersBySuffix(kwargs)
             all == All(cls, db, keys)
         IN  IF all.kind # "ok" THEN all
             ELSE IF \E i \in 1..Len(all.val) :
                        MatchFilters(all.val[i], filter_group) = "TypeError"
                  THEN Result("TypeError", None, db)
             ELSE Result("ok", Matching(all.val, filter_group), db)

\* match_for_values(**kwargs)
MatchForValues(cls, db, keys, kwargs) ==
    LET query == Filter(cls, db, keys, kwargs)
    IN  IF query.kind # "ok" THEN query
        ELSE IF Len(query.val) = 0 THEN Result("NotFound", None, db)
        ELSE IF Len(query.val) > 1 THEN Result("MultipleFound", None, db)
        ELSE Result("ok", query.val[1], db)

\* match(**kwargs)
Match(cls, db, keys, kwargs) ==
    LET schema == ImportData(EmptyRecord, kwargs)
    IN  IF Truthy(PrimaryKey(schema))
        THEN MatchForPk(cls, db, PrimaryKey(schema))
        ELSE MatchForValues(cls, db, keys, kwargs)

\* delete_all() of the Simple layout that passes one key to delete, not all
DeleteAllFirstKey(cls, db) ==
    IF cls.layout = "simple"
    THEN LET keys == AllKeys(cls, db)
             del == RedisDelete(db, {CHOOSE k \in keys : TRUE})
         IN  IF keys = {} THEN Result("ok", IntV(0), db) ELSE Result("ok", IntV(del.n), del.db)
    ELSE LET del == RedisDelete(db, {SetKey(cls)})
         IN  Result("ok", IntV(del.n), del.db)

\* delete_all()
DeleteAll(cls, db) ==
    IF cls.layout = "simple"
    THEN LET keys == AllKeys(cls, db)
             del == RedisDelete(db, keys)
         IN  IF keys = {} THEN Result("ok", IntV(0), db) ELSE Result("ok", IntV(del.n), del.db)
    ELSE LET del == RedisDelete(db, {SetKey(cls)})
         IN  Result("ok", IntV(del.n), del.db)

\* delete_filter that deletes every key of the type when something matched
DeleteKeysOfAll(cls, db, ks) ==
    LET del == IF cls.layout = "simple"
               THEN RedisDelete(db, AllKeys(cls, db))
               ELSE RedisHdel(db, SetKey(cls), AllKeys(cls, db))
    IN  IF ks = {} THEN Result("ok", IntV(0), db) ELSE Result("ok", IntV(del.n), del.db)

\* delete_filter: delete(*keys) / hdel(set key, *keys), 0 when there are none
DeleteKeys(cls, db, ks) ==
    LET del == IF cls.layout = "simple"
               THEN RedisDelete(db, ks)
               ELSE RedisHdel(db, SetKey(cls), ks)
    IN  IF ks = {} THEN Result("ok", IntV(0), db) ELSE Result("ok", IntV(del.n), del.db)

\* delete_filter: keys = [r.key for r in matching]
KeysOf(cls, matching) == {Key(cls, matching[i]) : i \in 1..Len(matching)}

\* delete_filter(**kwargs)
DeleteFilter(cls, db, keys, kwargs) ==
    LET matching == Filter(cls, db, keys, kwargs)
    IN  IF matching.kind # "ok" THEN matching
        ELSE IF \E i \in 1..Len(matching.val) : ~HasKey(matching.val[i])
             THEN Result("TypeError", None, db)
        ELSE DeleteKeys(cls, db, KeysOf(cls, matching.val))

\* set(): self.pk is assigned first
AssignPk(obj) ==
    [obj EXCEPT !["pk"] = IF Truthy(PrimaryKey(obj)) THEN PrimaryKey(obj) ELSE StrV(UuidRepr)]

\* set() of the Hash layout: an hset that keeps a field that is there
HashWriteIfAbsent(cls, db, self) ==
    IF Key(cls, self) \in DOMAIN RedisHgetall(db, SetKey(cls)) THEN db
    ELSE RedisHset(db, SetKey(cls), Key(cls, self), Serializer(ToPrimitive(self)))

\* set() of the Hash layout: hset(set key, key, serialized record)
HashWrite(cls, db, self) ==
    RedisHset(db, SetKey(cls), Key(cls, self), Serializer(ToPrimitive(self)))

\* set() of the Hash layout: expire(set key, __expire__)
HashExpire(cls, db) == RedisExpire(db, SetKey(cls), cls.expire)

\* set() that serializes the record before it assigns self.pk
SetBeforePk(cls, db, obj) ==
    LET self == AssignPk(obj)
        dump == Serializer(ToPrimitive(obj))
    IN  IF cls.layout = "simple"
        THEN Result("ok", None, RedisSet(db, Key(cls, self), dump, cls.expire))
        ELSE Result("ok", None, RedisExpire(RedisHset(db, SetKey(cls), Key(cls, self), dump),
                                            SetKey(cls), cls.expire))

\* set() that gives the hash its TTL only when it creates it
SetExpireOnce(cls, db, obj) ==
    LET self == AssignPk(obj)
        dump == Serializer(ToPrimitive(self))
    IN  IF cls.layout = "simple"
        THEN Result("ok", None, RedisSet(db, Key(cls, self), dump, cls.expire))
        ELSE LET written == RedisHset(db, SetKey(cls), Key(cls, self), dump)
             IN  IF SetKey(cls) \in DOMAIN db THEN Result("ok", None, written)
                 ELSE Result("ok", None, RedisExpire(written, SetKey(cls), cls.expire))

\* set(): the store commands; expire() of the client takes no None
Set(cls, db, obj) ==
    LET self == AssignPk(obj)
        dump == Serializer(ToPrimitive(self))
    IN  IF cls.layout = "simple"
        THEN Result("ok", None, RedisSet(db, Key(cls, self), dump, cls.expire))
        ELSE LET written == HashWrite(cls, db, self)
             IN  IF cls.expire = None THEN Result("RedisError", None, written)
                 ELSE Result("ok", None, HashExpire(cls, written))

\* refresh(): val is the record as it is after the call
Refresh(cls, db, obj) ==
    LET result == IF cls.layout = "simple"
                  THEN RedisGet(db, Key(cls, obj))
                  ELSE RedisHget(db, SetKey(cls), Key(cls, obj))
    IN  IF ~HasKey(obj) THEN Result("TypeError", obj, db)
        ELSE IF result = None THEN Result("NotFound", obj, db)
        ELSE Result("ok", ImportData(obj, Deserializer(result)), db)

\* delete() of the Simple layout that deletes __set_key__, as the Hash layout's does
DeleteSetKey(cls, db, obj) ==
    IF ~HasKey(obj) THEN Result("TypeError", None, db)
    ELSE IF cls.layout = "simple"
         THEN Result("ok", None, RedisDelete(db, {SetKey(cls)}).db)
         ELSE Result("ok", None, RedisHdel(db, SetKey(cls), {Key(cls, obj)}).db)

\* delete()
Delete(cls, db, obj) ==
    IF ~HasKey(obj) THEN Result("TypeError", None, db)
    ELSE IF cls.layout = "simple"
         THEN Result("ok", None, RedisDelete(db, {Key(cls, obj)}).db)
         ELSE Result("ok", None, RedisHdel(db, SetKey(cls), {Key(cls, obj)}).db)

(***************************************************************************)
(* The state: one record type with its configuration, the database, the   *)
(* outcome of the application's last call, and the calls that concurrent   *)
(* callers have in progress.                                               *)
(***************************************************************************)
VARIABLES
    cls,    \* [layout, strict, expire]: the mixin and the class attributes
    db,     \* the Redis database
    ret,    \* <<op, kind, arg, val>>: the last call, its outcome and argument
    hist,   \* history: [valid, recs], the primitive last set() per primary key
    calls   \* caller -> <<op, pc, n, arg, local, kind, val>>; empty with one caller

vars == <<cls, db, ret, hist, calls>>

\* the field values the application uses
PkValues == {None, StrV("1")}
IdValues == {IntV(i) : i \in 0..MaxId}
\* <<name, good_number>>: a record with both, and one whose number is not set
Payloads == {<<StrV("A"), IntV(42)>>, <<StrV("B"), None>>}

\* the in-memory records the application holds
Records ==
    {[f \in FieldSet |-> CASE f = "pk" -> p [] f = "id" -> i [] f = "name" -> v[1]
                           [] f = "good_number" -> v[2]] :
        p \in PkValues, i \in IdValues, v \in Payloads}

\* the primary keys the application looks up
PkArgs == {StrV(ToStr(i)) : i \in 0..MaxId} \cup {StrV(UuidRepr)}

\* the keyword arguments the application queries with
Queries ==
    { <<>>,
      <<<<"name", StrV("A")>>>>,
      <<<<"good_number__gt", IntV(41)>>>>,
      <<<<"id", IntV(0)>>>>,
      <<<<"id", IntV(1)>>>>,
      <<<<"pk", StrV("1")>>>>,
      <<<<"pk", StrV("1")>>, <<"name", StrV("B")>>>>,
      <<<<"name__eq", StrV("A")>>, <<"name", StrV("B")>>>> }

\* the classes of the tests: __expire__ is set, __strict_performance__ is not
Classes ==
    [layout : {"simple", "hash"}, strict : {FALSE}, expire : {IntV(ExpireSecs)}]

NoHistory == [valid |-> FALSE, recs |-> EmptyDb]

\* the parts of ret
Op(r) == r[1]
Kind(r) == r[2]
Arg(r) == r[3]
Val(r) == r[4]

\* no call is in progress
NoCall == <<"none", "ok", None, None>>

\* the application is one caller
NoCalls == <<>>

Init ==
    /\ cls \in Classes
    /\ db = EmptyDb
    /\ ret = NoCall
    /\ hist = [valid |-> TRUE, recs |-> EmptyDb]
    /\ calls = NoCalls

\* the application makes a call when its last one has returned
Idle == Op(ret) = "none"

\* the call op(arg) with outcome r
Called(op, arg, r) ==
    /\ ret' = <<op, r.kind, arg, r.val>>
    /\ db' = r.db
    /\ UNCHANGED <<cls, calls>>

\* hist after the primary keys pks were deleted
Forget(pks) == IF hist.valid THEN [hist EXCEPT !.recs = Without(@, pks)] ELSE hist

\* self.set(); val is the record as set() leaves it
DoSet ==
    /\ Idle
    /\ \E self \in Records :
        LET r == Set(cls, db, self)
        IN  /\ Called("set", self, Result(r.kind, AssignPk(self), r.db))
            /\ hist' = IF hist.valid
                       THEN [hist EXCEPT !.recs = With(@, AssignPk(self)["pk"][2],
                                                       ToPrimitive(AssignPk(self)))]
                       ELSE hist

\* self.refresh(); val is the record as refresh() leaves it
DoRefresh ==
    /\ Idle
    /\ \E self \in Records : Called("refresh", self, Refresh(cls, db, self))
    /\ UNCHANGED hist

\* self.delete()
DoDelete ==
    /\ Idle
    /\ \E self \in Records :
        /\ Called("delete", self, Delete(cls, db, self))
        /\ hist' = IF HasKey(self) THEN Forget({PrimaryKey(self)[2]}) ELSE hist

\* cls.match_for_pk(pk)
DoMatchForPk ==
    /\ Idle
    /\ \E pk \in PkArgs : Called("match_for_pk", pk, MatchForPk(cls, db, pk))
    /\ UNCHANGED hist

\* cls.all()
DoAll ==
    /\ Idle
    /\ \E keys \in Orders(AllKeys(cls, db)) : Called("all", None, All(cls, db, keys))
    /\ UNCHANGED hist

\* cls.filter(**kwargs)
DoFilter ==
    /\ Idle
    /\ \E keys \in Orders(AllKeys(cls, db)), kwargs \in Queries :
          Called("filter", kwargs, Filter(cls, db, keys, kwargs))
    /\ UNCHANGED hist

\* cls.match_for_values(**kwargs)
DoMatchForValues ==
    /\ Idle
    /\ \E keys \in Orders(AllKeys(cls, db)), kwargs \in Queries :
          Called("match_for_values", kwargs, MatchForValues(cls, db, keys, kwargs))
    /\ UNCHANGED hist

\* cls.match(**kwargs)
DoMatch ==
    /\ Idle
    /\ \E keys \in Orders(AllKeys(cls, db)), kwargs \in Queries :
          Called("match", kwargs, Match(cls, db, keys, kwargs))
    /\ UNCHANGED hist

\* cls.delete_all()
DoDeleteAll ==
    /\ Idle
    /\ Called("delete_all", None, DeleteAll(cls, db))
    /\ hist' = IF hist.valid THEN [hist EXCEPT !.recs = EmptyDb] ELSE hist

\* cls.delete_filter(**kwargs)
DoDeleteFilter ==
    /\ Idle
    /\ \E keys \in Orders(AllKeys(cls, db)), kwargs \in Queries :
        LET matching == Filter(cls, db, keys, kwargs)
            r == DeleteFilter(cls, db, keys, kwargs)
        IN  /\ Called("delete_filter", kwargs, r)
            /\ hist' = IF r.kind = "ok"
                       THEN Forget({matching.val[i]["pk"][2] : i \in 1..Len(matching.val)})
                       ELSE hist

\* one second passes: every ttl counts down and a key whose ttl ends is removed
Tick ==
    /\ Idle
    /\ \E k \in DOMAIN db : db[k].ttl # None
    /\ LET kept == {k \in DOMAIN db : db[k].ttl = None \/ db[k].ttl[2] > 1}
       IN  /\ db' = [k \in kept |-> IF db[k].ttl = None THEN db[k]
                                    ELSE [db[k] EXCEPT !.ttl = IntV(@[2] - 1)]]
           /\ hist' = IF kept = DOMAIN db THEN hist ELSE NoHistory
    /\ UNCHANGED <<cls, ret, calls>>

\* the application has taken the outcome of its call
Return ==
    /\ ~Idle
    /\ ret' = NoCall
    /\ UNCHANGED <<cls, db, hist, calls>>

Next ==
    \/ DoSet
    \/ DoRefresh
    \/ DoDelete
    \/ DoMatchForPk
    \/ DoAll
    \/ DoFilter
    \/ DoMatchForValues
    \/ DoMatch
    \/ DoDeleteAll
    \/ DoDeleteFilter
    \/ Tick
    \/ Return

Spec == Init /\ [][Next]_vars

(***************************************************************************)
(* The properties. hist is the history of the calls: while nothing has     *)
(* expired (hist.valid), hist.recs maps each primary key that was set and  *)
(* not deleted since to the primitive form the record had when set() left  *)
(* it.                                                                     *)
(***************************************************************************)

\* C1: round trip, both layouts. After R.set(), with no delete, overwrite or
\* expiry of R's key since, match_for_pk(R's primary key) returns a record
\* whose primitive form, and so its serialized form, is R's.
RoundTrip ==
    (Op(ret) = "match_for_pk" /\ hist.valid /\ Arg(ret)[2] \in DOMAIN hist.recs)
        => /\ Kind(ret) = "ok"
           /\ ToPrimitive(Val(ret)) = hist.recs[Arg(ret)[2]]
           /\ Serializer(ToPrimitive(Val(ret))) = Serializer(hist.recs[Arg(ret)[2]])

\* C1: match_for_pk has returned a record of the Hash layout that set() stored
\* under a primary key derived from its id
RoundTripReached ==
    /\ Op(ret) = "match_for_pk"
    /\ hist.valid
    /\ Arg(ret)[2] \in DOMAIN hist.recs
    /\ cls.layout = "hash"
    /\ Kind(ret) = "ok"
    /\ Val(ret)["pk"] = StrV("1")
    /\ Val(ret)["good_number"] = IntV(42)

\* C2: with no expiry, all() returns exactly one record per primary key that
\* was set and not deleted since, each with the value of its last set(); so it
\* returns [] when nothing is stored, and a repeated set() adds no record.
AllIsWhatWasSet ==
    (Op(ret) = "all" /\ hist.valid)
        => /\ Kind(ret) = "ok"
           /\ Len(Val(ret)) = Cardinality(DOMAIN hist.recs)
           /\ \A pk \in DOMAIN hist.recs :
                \E i \in 1..Len(Val(ret)) : ToPrimitive(Val(ret)[i]) = hist.recs[pk]

\* C2: all() has returned two records, after sets and deletes
AllReached ==
    /\ Op(ret) = "all"
    /\ hist.valid
    /\ Kind(ret) = "ok"
    /\ Len(Val(ret)) = 2
    /\ \E i \in 1..2 : Val(ret)[i]["pk"] = StrV(UuidRepr)

(***************************************************************************)
(* What the filters of a query require of a record, read filter by filter: *)
(* a key ending in an operator suffix applies that operator to the field   *)
(* named before the suffix, any other key requires equality.               *)
(***************************************************************************)
HasSuffix(k) == \E i \in 1..Len(FILTER_OPS) : EndsWith(k, FILTER_OPS[i])
SuffixOf(k) ==
    IF HasSuffix(k)
    THEN FILTER_OPS[CHOOSE i \in 1..Len(FILTER_OPS) : EndsWith(k, FILTER_OPS[i])]
    ELSE "__eq"
FieldOf(k) == IF HasSuffix(k) THEN SubSeq(k, 1, Len(k) - Len(SuffixOf(k))) ELSE k

\* every filter of kwargs holds of the record
Satisfies(rec, kwargs) ==
    \A i \in 1..Len(kwargs) :
        ApplyOp(SuffixOf(kwargs[i][1]), GetAttr(rec, FieldOf(kwargs[i][1])), kwargs[i][2]) = "T"

\* the serialized values the database d holds for the type c
StoredValues(c, d) ==
    IF c.layout = "simple"
    THEN {d[k].val : k \in AllKeys(c, d)}
    ELSE {RedisHgetall(d, SetKey(c))[f] : f \in AllKeys(c, d)}

\* the records stored for the type: what all() loads
StoredRecords(c, d) == {ImportData(EmptyRecord, Deserializer(v)) : v \in StoredValues(c, d)}

\* the stored records that satisfy kwargs
StoredSatisfying(c, d, kwargs) == {r \in StoredRecords(c, d) : Satisfies(r, kwargs)}

\* the elements of a sequence
Elements(q) == {q[i] : i \in 1..Len(q)}

\* C3: filter(**kwargs) returns exactly the records of all() of which every
\* given filter holds: [] when none does, never an error, and the records of
\* all() when there is no filter.
FilterIsExact ==
    Op(ret) = "filter"
        => /\ Kind(ret) = "ok"
           /\ Elements(Val(ret)) = StoredSatisfying(cls, db, Arg(ret))
           /\ Len(Val(ret)) = Cardinality(StoredSatisfying(cls, db, Arg(ret)))

\* C4: match_for_values(**kwargs) raises NotFound when no stored record
\* satisfies the filters, MultipleFound when two or more do, returns the
\* record when exactly one does, and leaves the store unchanged.
MatchForValuesCases ==
    [][(Idle /\ Op(ret') = "match_for_values")
        => LET found == StoredSatisfying(cls, db, Arg(ret'))
           IN  /\ db' = db
               /\ Cardinality(found) = 0 => Kind(ret') = "NotFound"
               /\ Cardinality(found) >= 2 => Kind(ret') = "MultipleFound"
               /\ Cardinality(found) = 1 => (Kind(ret') = "ok" /\ Val(ret') \in found)]_vars

\* the primary key the fields of a record give: the string of pk when pk
\* holds a value, or else the string of id when id holds a value
FieldPk(rec) ==
    IF rec["pk"] # None THEN StrV(PyStr(rec["pk"]))
    ELSE IF rec["id"] # None THEN StrV(PyStr(rec["id"]))
         ELSE None

\* the primary key a query names: its pk value, or else its id value
QueryPk(kwargs) == FieldPk(ImportData(EmptyRecord, kwargs))

\* C5: when kwargs gives a pk value or an id value, match(**kwargs) has the
\* outcome of match_for_pk(that primary key): the same record or the same
\* NotFound.
MatchIsMatchForPk ==
    (Op(ret) = "match" /\ QueryPk(Arg(ret)) # None)
        => /\ Kind(ret) = MatchForPk(cls, db, QueryPk(Arg(ret))).kind
           /\ Val(ret) = MatchForPk(cls, db, QueryPk(Arg(ret))).val

\* C6: match(**kwargs) returns the single stored record that satisfies every
\* filter of kwargs, or raises NotFound or MultipleFound. In particular a
\* record that match returns satisfies all the given filters, also when
\* kwargs names the primary key it is stored under.
MatchReturnsSatisfying ==
    (Op(ret) = "match" /\ Kind(ret) = "ok" /\ QueryPk(Arg(ret)) # None)
        => /\ Satisfies(Val(ret), Arg(ret))
           /\ StoredSatisfying(cls, db, Arg(ret)) = {Val(ret)}

\* the serialized value stored under the key of primary key pk, or None
StoredUnder(c, d, pk) ==
    IF c.layout = "simple"
    THEN RedisGet(d, KeyPattern(c, <<pk[2]>>))
    ELSE RedisHget(d, SetKey(c), KeyPattern(c, <<pk[2]>>))

\* the primary key a read is made with
ReadPk(r) == IF Op(r) = "match_for_pk" THEN Arg(r) ELSE FieldPk(Arg(r))

\* C7: match_for_pk(pk) and refresh() raise NotFound exactly when no record
\* is stored under the key (never set, deleted, or expired) and otherwise
\* return or load the stored value; neither writes to the store, and a
\* refresh() that raises leaves the fields of the record unchanged.
PkReadIsFaithful ==
    [][(Idle /\ Op(ret') \in {"match_for_pk", "refresh"})
        => LET stored == StoredUnder(cls, db, ReadPk(ret'))
           IN  /\ db' = db
               /\ (Op(ret') = "refresh" /\ Kind(ret') # "ok") => Val(ret') = Arg(ret')
               /\ Kind(ret') \in {"ok", "NotFound"}
               /\ Kind(ret') = "NotFound" <=> stored = None
               /\ hist.valid => (stored = None <=> ReadPk(ret')[2] \notin DOMAIN hist.recs)
               /\ Kind(ret') = "ok" => ToPrimitive(Val(ret')) = Deserializer(stored)]_vars

\* C8: delete_filter(**kwargs) removes exactly the stored records that satisfy
\* every filter, leaves the others stored as they were, and returns the
\* number it removed: 0, with the store unchanged, when none matches.
DeleteFilterIsExact ==
    [][(Idle /\ Op(ret') = "delete_filter")
        => LET found == StoredSatisfying(cls, db, Arg(ret'))
           IN  /\ Kind(ret') = "ok"
               /\ StoredRecords(cls, db') = StoredRecords(cls, db) \ found
               /\ Val(ret') = IntV(Cardinality(found))
               /\ found = {} => db' = db]_vars

\* C9: after delete_all() a following all() returns [] and match_for_pk
\* raises NotFound for every primary key; the Hash layout does it with one
\* delete of the hash key.
DeleteAllEmpties ==
    [][(Idle /\ Op(ret') = "delete_all")
        => /\ Kind(ret') = "ok"
           /\ \A keys \in Orders(AllKeys(cls, db')) : All(cls, db', keys).val = <<>>
           /\ \A pk \in PkArgs \cup {StrV(k) : k \in DOMAIN hist.recs} :
                MatchForPk(cls, db', pk).kind = "NotFound"
           /\ cls.layout = "hash" => db' = RedisDelete(db, {SetKey(cls)}).db]_vars

\* C9: delete_all() of the Hash layout has deleted the hash that held the records
DeleteAllReached ==
    /\ Op(ret) = "delete_all"
    /\ cls.layout = "hash"
    /\ Val(ret) = IntV(1)
    /\ db = EmptyDb
    /\ hist.valid

\* C10: delete_all() returns the number of records it deleted: N when N
\* records of the type are stored, in both layouts.
DeleteAllCounts ==
    [][(Idle /\ Op(ret') = "delete_all")
        => Val(ret') = IntV(Cardinality(StoredRecords(cls, db)))]_vars

(***************************************************************************)
(* The same type with __strict_performance__ = True.                       *)
(***************************************************************************)
StrictClasses ==
    [layout : {"simple", "hash"}, strict : {TRUE}, expire : {IntV(ExpireSecs)}]

InitStrict ==
    /\ cls \in StrictClasses
    /\ db = EmptyDb
    /\ ret = NoCall
    /\ hist = [valid |-> TRUE, recs |-> EmptyDb]
    /\ calls = NoCalls

SpecStrict == InitStrict /\ [][Next]_vars

\* C11: with the strict-performance flag enabled, all() and filter() raise
\* StrictPerformanceException, in the Simple and in the Hash layout.
StrictScansRaise ==
    Op(ret) \in {"all", "filter"} => Kind(ret) = "StrictPerformanceException"

\* the class with the strict-performance flag disabled
Lenient(c) == [c EXCEPT !.strict = FALSE]

\* C12: with the flag enabled, match_for_values, delete_filter and match with
\* kwargs that name no primary key raise StrictPerformanceException and leave
\* the store unchanged; set, match_for_pk, refresh, delete and match with a
\* primary key do what they do with the flag disabled.
StrictSparesPkCalls ==
    [][Idle
        => LET op == Op(ret')
               arg == Arg(ret')
               out == <<Kind(ret'), db'>>
           IN  /\ (op \in {"match_for_values", "delete_filter"}
                    \/ (op = "match" /\ QueryPk(arg) = None))
                    => out = <<"StrictPerformanceException", db>>
               /\ op = "set"
                    => out = <<Set(Lenient(cls), db, arg).kind, Set(Lenient(cls), db, arg).db>>
               /\ op = "delete"
                    => out = <<Delete(Lenient(cls), db, arg).kind,
                               Delete(Lenient(cls), db, arg).db>>
               /\ op = "refresh"
                    => /\ out = <<Refresh(Lenient(cls), db, arg).kind, db>>
                       /\ Val(ret') = Refresh(Lenient(cls), db, arg).val
               /\ op = "match_for_pk"
                    => /\ out = <<MatchForPk(Lenient(cls), db, arg).kind, db>>
                       /\ Val(ret') = MatchForPk(Lenient(cls), db, arg).val
               /\ (op = "match" /\ QueryPk(arg) # None)
                    => \E keys \in Orders(AllKeys(cls, db)) :
                          /\ out = <<Match(Lenient(cls), db, keys, arg).kind, db>>
                          /\ Val(ret') = Match(Lenient(cls), db, keys, arg).val]_vars

(***************************************************************************)
(* match_filters as a function of one record field and one filter.         *)
(***************************************************************************)
\* the good_number of the tests
GoodNumber == 42

\* how far from GoodNumber the numbers of the filters range
Spread == 1

Numbers == (GoodNumber - Spread)..(GoodNumber + Spread)

Scalars == {IntV(n) : n \in Numbers}

Lists == {ListV([i \in 1..Len(q) |-> IntV(q[i])]) : q \in UNION {Orders(S) : S \in SUBSET Numbers}}

ScalarKeys ==
    {"good_number", "good_number__gt", "good_number__lt", "good_number__gte",
     "good_number__lte", "good_number__eq", "good_number__not"}

ListKeys == {"good_number__in", "good_number__exclude"}

\* <<s, key, r>>: the field value, the filter key, the filter value
FilterInputs == (Scalars \X ScalarKeys \X Scalars) \cup (Scalars \X ListKeys \X Lists)

InitOps ==
    /\ cls \in Classes
    /\ db = EmptyDb
    /\ hist = NoHistory
    /\ calls = NoCalls
    /\ \E i \in FilterInputs : ret = <<"input", "ok", i, None>>

\* match_filters(obj, group_filters_by_suffix({key: r})) on a record whose
\* good_number is s
DoMatchFilters ==
    /\ Op(ret) = "input"
    /\ LET i == Arg(ret)
           obj == [EmptyRecord EXCEPT !["good_number"] = i[1]]
           filter_group == GroupFiltersBySuffix(<<<<i[2], i[3]>>>>)
       IN  ret' = <<"match_filters", MatchFilters(obj, filter_group), i, None>>
    /\ UNCHANGED <<cls, db, hist, calls>>

SpecOps == InitOps /\ [][DoMatchFilters]_vars

\* C13: a filter key with suffix __gt holds iff s > r, __lt iff s < r, __gte
\* iff s >= r, __lte iff s <= r, __eq and no suffix iff s = r, __not iff
\* s # r, __in iff s is a member of r, __exclude iff it is not; s is the
\* record's value and r the filter's.
SuffixOperators ==
    Op(ret) = "match_filters"
        => LET s == Arg(ret)[1][2]
               key == Arg(ret)[2]
               r == Arg(ret)[3][2]
               members == {r[i][2] : i \in DOMAIN r}
               holds ==
                   CASE key = "good_number__gt" -> s > r
                     [] key = "good_number__lt" -> s < r
                     [] key = "good_number__gte" -> s >= r
                     [] key = "good_number__lte" -> s <= r
                     [] key = "good_number__eq" -> s = r
                     [] key = "good_number" -> s = r
                     [] key = "good_number__not" -> s # r
                     [] key = "good_number__in" -> s \in members
                     [] key = "good_number__exclude" -> s \notin members
           IN  Kind(ret) = Bool(holds)

\* good_number = 42 has been matched against good_number__gt = 42, and failed
SuffixOperatorsReached ==
    /\ Op(ret) = "match_filters"
    /\ Arg(ret) = <<IntV(GoodNumber), "good_number__gt", IntV(GoodNumber)>>
    /\ Kind(ret) = "F"

\* C14: in the Hash layout the TTL belongs to the whole hash. Every set()
\* leaves the hash with a TTL of expire seconds and keeps the records set
\* earlier; from then on the TTL only counts down, one per second, no other
\* call changes it, and when it runs out all the records go together.
HashTtlIsShared ==
    [][cls.layout = "hash" /\ Idle
        => LET hk == SetKey(cls)
               op == Op(ret')
           IN  /\ op = "set"
                    => /\ hk \in DOMAIN db'
                       /\ db'[hk].ttl = cls.expire
                       /\ DOMAIN RedisHgetall(db, hk) \subseteq DOMAIN db'[hk].val
               /\ (op = "none" /\ hk \in DOMAIN db)
                    => IF db[hk].ttl[2] > 1
                       THEN db' = With(db, hk, [val |-> db[hk].val,
                                                ttl |-> IntV(db[hk].ttl[2] - 1)])
                       ELSE db' = EmptyDb
               /\ (op \notin {"none", "set"} /\ hk \in DOMAIN db /\ hk \in DOMAIN db')
                    => db'[hk].ttl = db[hk].ttl
               /\ hk \in DOMAIN db' => db'[hk].ttl \in {IntV(n) : n \in 1..ExpireSecs}]_vars

\* a set() has put the TTL of a hash that holds another record back to expire
HashTtlReached ==
    /\ cls.layout = "hash"
    /\ Op(ret) = "set"
    /\ SetKey(cls) \in DOMAIN db
    /\ db[SetKey(cls)].ttl = cls.expire
    /\ \E f \in DOMAIN db[SetKey(cls)].val : f # Key(cls, Val(ret))

\* the entries of the type: key -> value and TTL (Simple), field -> value (Hash)
Entries(c, d) ==
    IF c.layout = "simple"
    THEN [k \in AllKeys(c, d) |-> d[k]]
    ELSE RedisHgetall(d, SetKey(c))

\* the entry of a record: the key built from its primary key
EntryOf(c, rec) == KeyPattern(c, <<FieldPk(rec)[2]>>)

\* C15: set() and delete() of a record leave every entry but the record's
\* own as it was (value and TTL in the Simple layout, value in the Hash
\* layout), and delete() of a record that is not stored returns normally and
\* changes nothing.
SetAndDeleteAreLocal ==
    [][(Idle /\ Op(ret') \in {"set", "delete"})
        => LET own == EntryOf(cls, Arg(ret'))
               before == Entries(cls, db)
               after == Entries(cls, db')
           IN  /\ \A k \in DOMAIN before \ {own} :
                     k \in DOMAIN after /\ after[k] = before[k]
               /\ (Op(ret') = "delete" /\ own \notin DOMAIN before)
                     => Kind(ret') = "ok" /\ db' = db]_vars

(***************************************************************************)
(* A type whose records are stored with neither pk nor id.                 *)
(***************************************************************************)
NewRecords ==
    {[f \in FieldSet |-> CASE f = "pk" -> None
                           [] f = "id" -> None
                           [] f = "name" -> v[1]
                           [] f = "good_number" -> v[2]] : v \in Payloads}

\* self.set() on a record with neither pk nor id
DoSetNew ==
    /\ Idle
    /\ \E self \in NewRecords :
        LET r == Set(cls, db, self)
        IN  /\ Called("set", self, Result(r.kind, AssignPk(self), r.db))
            /\ hist' = IF hist.valid
                       THEN [hist EXCEPT !.recs = With(@, AssignPk(self)["pk"][2],
                                                       ToPrimitive(AssignPk(self)))]
                       ELSE hist

NextNew ==
    \/ DoSetNew
    \/ DoRefresh
    \/ DoDelete
    \/ DoMatchForPk
    \/ DoAll
    \/ DoFilter
    \/ DoMatchForValues
    \/ DoMatch
    \/ DoDeleteAll
    \/ DoDeleteFilter
    \/ Tick
    \/ Return

SpecNew == Init /\ [][NextNew]_vars

\* C16: set() on a record with no primary key to resolve stores it under a
\* key no stored record of the type has, so that the type holds one record
\* more and all() returns it next to the others.
FreshPkIsUnique ==
    [][(Idle /\ Op(ret') = "set" /\ FieldPk(Arg(ret')) = None)
        => LET own == Key(cls, Val(ret'))
           IN  /\ own \notin DOMAIN Entries(cls, db)
               /\ DOMAIN Entries(cls, db') = DOMAIN Entries(cls, db) \cup {own}
               /\ Val(ret') \in StoredRecords(cls, db')]_vars

\* C20: the primary key of a record is str(pk) when pk holds a value, else
\* str(id) when id holds a value, 0 included; set() stores the record under
\* the key built from it.
PkResolutionIsOrdered ==
    (Op(ret) = "set" /\ FieldPk(Arg(ret)) # None)
        => /\ Val(ret)["pk"] = FieldPk(Arg(ret))
           /\ EntryOf(cls, Arg(ret)) \in DOMAIN Entries(cls, db)

(***************************************************************************)
(* Concurrent callers. Each caller makes one call at a time; a call is the *)
(* sequence of its store commands, each of them atomic in the store, and   *)
(* the commands of the callers interleave freely.                          *)
(***************************************************************************)
\* the calls each caller makes at most
MaxCalls == 2

Callers == {"c1", "c2"}

\* the records and the query of the concurrent callers: two keys, two values
ConcPks == {StrV("1"), StrV("2")}

ConcRecords ==
    {[f \in FieldSet |-> CASE f = "pk" -> p [] f = "id" -> IntV(1) [] f = "name" -> v[1]
                           [] f = "good_number" -> v[2]] :
        p \in ConcPks, v \in Payloads}

ConcQueries == {<<<<"name", StrV("A")>>>>}

\* the parts of a call
COp(t) == t[1]
Pc(t) == t[2]
Count(t) == t[3]
CArg(t) == t[4]
Local(t) == t[5]
CKind(t) == t[6]
CVal(t) == t[7]

\* a caller between two calls, after n of them
IdleCall(n) == <<"none", "idle", n, None, None, "ok", None>>

InitConc ==
    /\ cls \in Classes
    /\ db = EmptyDb
    /\ ret = NoCall
    /\ hist = [valid |-> TRUE, recs |-> EmptyDb]
    /\ calls = [c \in Callers |-> IdleCall(0)]

CanCall(c) == Pc(calls[c]) = "idle" /\ Count(calls[c]) < MaxCalls

\* the call of c is at pc, with its local value
At(c, op, pc, arg, local) ==
    calls' = [calls EXCEPT ![c] = <<op, pc, @[3], arg, local, "ok", None>>]

\* the call of c has its outcome
Done(c, op, arg, local, kind, val) ==
    calls' = [calls EXCEPT ![c] = <<op, "done", @[3], arg, local, kind, val>>]

\* hist after the record was written
Wrote(self) ==
    IF hist.valid
    THEN [hist EXCEPT !.recs = With(@, self["pk"][2], ToPrimitive(self))]
    ELSE hist

\* the value stored under a key of the type
ValueAt(c, d, k) == IF c.layout = "simple" THEN d[k].val ELSE RedisHgetall(d, SetKey(c))[k]

\* set(): set (Simple), or hset with the expire still to come (Hash)
CallSet(c) ==
    /\ CanCall(c)
    /\ \E obj \in ConcRecords :
        LET self == AssignPk(obj)
        IN  /\ IF cls.layout = "simple"
               THEN /\ db' = Set(cls, db, obj).db
                    /\ Done(c, "set", obj, None, Set(cls, db, obj).kind, self)
               ELSE /\ db' = HashWrite(cls, db, self)
                    /\ At(c, "set", "expire", obj, None)
            /\ hist' = Wrote(self)
    /\ UNCHANGED <<cls, ret>>

\* set() of the Hash layout: the expire
SetExpire(c) ==
    /\ COp(calls[c]) = "set"
    /\ Pc(calls[c]) = "expire"
    /\ db' = HashExpire(cls, db)
    /\ Done(c, "set", CArg(calls[c]), None, "ok", AssignPk(CArg(calls[c])))
    /\ UNCHANGED <<cls, ret, hist>>

\* delete(): one command
CallDelete(c) ==
    /\ CanCall(c)
    /\ \E obj \in ConcRecords :
        LET r == Delete(cls, db, obj)
        IN  /\ db' = r.db
            /\ Done(c, "delete", obj, None, r.kind, None)
            /\ hist' = IF HasKey(obj) THEN Forget({PrimaryKey(obj)[2]}) ELSE hist
    /\ UNCHANGED <<cls, ret>>

\* all(): keys (Simple, the mget still to come), or hgetall (Hash)
CallAll(c) ==
    /\ CanCall(c)
    /\ \E keys \in Orders(AllKeys(cls, db)) :
        IF cls.layout = "simple" /\ ~cls.strict /\ keys # <<>>
        THEN At(c, "all", "fetch", None, keys)
        ELSE Done(c, "all", None, None, All(cls, db, keys).kind, All(cls, db, keys).val)
    /\ UNCHANGED <<cls, db, ret, hist>>

\* all() of the Simple layout: the mget of the keys listed, and the loading
AllFetch(c) ==
    /\ COp(calls[c]) = "all"
    /\ Pc(calls[c]) = "fetch"
    /\ LET r == All(cls, db, Local(calls[c]))
       IN  Done(c, "all", None, None, r.kind, r.val)
    /\ UNCHANGED <<cls, db, ret, hist>>

\* delete_filter(): what follows filter(), the delete still to come
Scanned(c, kwargs, matching) ==
    IF matching.kind # "ok"
    THEN Done(c, "delete_filter", kwargs, None, matching.kind, None)
    ELSE IF \E i \in 1..Len(matching.val) : ~HasKey(matching.val[i])
    THEN Done(c, "delete_filter", kwargs, None, "TypeError", None)
    ELSE IF KeysOf(cls, matching.val) = {}
    THEN Done(c, "delete_filter", kwargs, None, "ok", IntV(0))
    ELSE At(c, "delete_filter", "delete", kwargs, KeysOf(cls, matching.val))

\* delete_filter(): keys (Simple, the mget still to come), or hgetall (Hash)
CallDeleteFilter(c) ==
    /\ CanCall(c)
    /\ \E kwargs \in ConcQueries, keys \in Orders(AllKeys(cls, db)) :
        IF cls.layout = "simple" /\ ~cls.strict /\ keys # <<>>
        THEN At(c, "delete_filter", "fetch", kwargs, keys)
        ELSE Scanned(c, kwargs, Filter(cls, db, keys, kwargs))
    /\ UNCHANGED <<cls, db, ret, hist>>

\* delete_filter() of the Simple layout: the mget of the keys listed
DeleteFilterFetch(c) ==
    /\ COp(calls[c]) = "delete_filter"
    /\ Pc(calls[c]) = "fetch"
    /\ Scanned(c, CArg(calls[c]), Filter(cls, db, Local(calls[c]), CArg(calls[c])))
    /\ UNCHANGED <<cls, db, ret, hist>>

\* delete_filter(): the delete / hdel of the keys that matched. The call
\* keeps, for the record, <<the records it removed, the matching records it
\* left>>.
DeleteFilterDelete(c) ==
    /\ COp(calls[c]) = "delete_filter"
    /\ Pc(calls[c]) = "delete"
    /\ LET keys == Local(calls[c])
           kwargs == CArg(calls[c])
           r == DeleteKeys(cls, db, keys)
           removed == {ImportData(EmptyRecord, Deserializer(ValueAt(cls, db, k))) :
                          k \in keys \cap AllKeys(cls, db)}
       IN  /\ db' = r.db
           /\ Done(c, "delete_filter", kwargs,
                   <<removed, StoredSatisfying(cls, r.db, kwargs)>>, r.kind, r.val)
           /\ hist' = Forget({pk \in DOMAIN hist.recs : KeyPattern(cls, <<pk>>) \in keys})
    /\ UNCHANGED <<cls, ret>>

\* the caller has taken the outcome of its call
Finish(c) ==
    /\ Pc(calls[c]) = "done"
    /\ calls' = [calls EXCEPT ![c] = IdleCall(Count(@) + 1)]
    /\ UNCHANGED <<cls, db, ret, hist>>

NextConc ==
    \/ \E c \in Callers : CallSet(c)
    \/ \E c \in Callers : SetExpire(c)
    \/ \E c \in Callers : CallDelete(c)
    \/ \E c \in Callers : CallAll(c)
    \/ \E c \in Callers : AllFetch(c)
    \/ \E c \in Callers : CallDeleteFilter(c)
    \/ \E c \in Callers : DeleteFilterFetch(c)
    \/ \E c \in Callers : DeleteFilterDelete(c)
    \/ \E c \in Callers : Finish(c)
    \/ Tick

SpecConc == InitConc /\ [][NextConc]_vars

\* C17: an all() made while other callers delete records, or while records
\* expire, completes without raising.
ConcurrentAllReturns ==
    \A c \in Callers :
        (COp(calls[c]) = "all" /\ Pc(calls[c]) = "done") => CKind(calls[c]) = "ok"

\* no call is between two of its store commands
Quiescent == \A c \in Callers : Pc(calls[c]) \in {"idle", "done"}

\* C18: concurrent set() calls are last-write-wins. Once all calls have
\* finished, what is stored under each primary key is the complete serialized
\* record of the write the store executed last, and in the Hash layout the
\* hash carries a TTL.
LastWriteWins ==
    (Quiescent /\ hist.valid)
        => /\ DOMAIN Entries(cls, db) = {KeyPattern(cls, <<pk>>) : pk \in DOMAIN hist.recs}
           /\ \A pk \in DOMAIN hist.recs :
                 StoredUnder(cls, db, StrV(pk)) = Serializer(hist.recs[pk])
           /\ (cls.layout = "hash" /\ SetKey(cls) \in DOMAIN db)
                 => db[SetKey(cls)].ttl # None

\* two callers have both finished a set() of the same primary key with
\* different records, neither having returned before the other was called
LastWriteReached ==
    /\ cls.layout = "hash"
    /\ \A c \in Callers : COp(calls[c]) = "set" /\ Pc(calls[c]) = "done"
    /\ CArg(calls["c1"])["pk"] = CArg(calls["c2"])["pk"]
    /\ CArg(calls["c1"])["name"] # CArg(calls["c2"])["name"]
    /\ StoredUnder(cls, db, CArg(calls["c1"])["pk"])
          = Serializer(ToPrimitive(CArg(calls["c1"])))

\* C19: delete_filter is not atomic. Its delete removes the keys its scan
\* matched, whatever is stored under them by then, and no other key: a
\* record another caller has set in between under a matched key is removed
\* though it no longer satisfies the filter, and a matching record set in
\* between under another key survives.
DeleteFilterActsOnItsScan ==
    [][\A c \in Callers :
        (COp(calls[c]) = "delete_filter" /\ Pc(calls[c]) = "delete" /\ calls'[c] # calls[c])
            => LET keys == Local(calls[c])
               IN  /\ DOMAIN Entries(cls, db') = DOMAIN Entries(cls, db) \ keys
                   /\ \A k \in DOMAIN Entries(cls, db') :
                         Entries(cls, db')[k] = Entries(cls, db)[k]
                   /\ CVal(calls'[c]) = IntV(Cardinality(keys \cap DOMAIN Entries(cls, db)))]_vars

\* a delete_filter has removed a record that did not satisfy its filter and
\* left one that did
DeleteFilterRaced ==
    \E c \in Callers :
        /\ COp(calls[c]) = "delete_filter"
        /\ Pc(calls[c]) = "done"
        /\ Local(calls[c]) # None
        /\ \E r \in Local(calls[c])[1] : ~Satisfies(r, CArg(calls[c]))
        /\ Local(calls[c])[2] # {}

(***************************************************************************)
(* group_filters_by_suffix as a function of the filter mapping.            *)
(***************************************************************************)
\* filter keys: bare, suffixed, and one whose field name holds a suffix
GroupKeys ==
    {"name", "name__eq", "name__not", "good_number__gt", "good_number__lt", "is__in_stock__in"}

GroupValues == {StrV("A"), StrV("B")}

\* the filter mappings of one or two keys, in the order of the dict
FilterMappings ==
    {<<<<k, v>>>> : k \in GroupKeys, v \in GroupValues}
        \cup {<<<<k[1], v[1]>>, <<k[2], v[2]>>>> :
                k \in {kk \in GroupKeys \X GroupKeys : kk[1] # kk[2]},
                v \in GroupValues \X GroupValues}

InitGroup ==
    /\ cls \in Classes
    /\ db = EmptyDb
    /\ hist = NoHistory
    /\ calls = NoCalls
    /\ \E filters \in FilterMappings : ret = <<"input", "ok", filters, None>>

\* group_filters_by_suffix(filters)
DoGroupFilters ==
    /\ Op(ret) = "input"
    /\ ret' = <<"group_filters_by_suffix", "ok", Arg(ret), GroupFiltersBySuffix(Arg(ret))>>
    /\ UNCHANGED <<cls, db, hist, calls>>

SpecGroup == InitGroup /\ [][DoGroupFilters]_vars

\* C21: group_filters_by_suffix puts every filter key in exactly one group:
\* a key ending in a suffix in that suffix's group, under the name left when
\* that trailing suffix is removed, any other key in the __eq group under its
\* own name; the groups hold as many constraints as there are filters.
GroupingKeepsEveryFilter ==
    Op(ret) = "group_filters_by_suffix"
        => LET filters == Arg(ret)
               checks == ChecksOf(Val(ret))
           IN  /\ Len(checks) = Len(filters)
               /\ \A j \in 1..Len(filters) :
                     Cardinality({i \in 1..Len(checks) :
                                    checks[i] = <<SuffixOf(filters[j][1]), FieldOf(filters[j][1]),
                                                  filters[j][2]>>}) = 1

(***************************************************************************)
(* match_filters on a field that is None, or that the record has not.      *)
(***************************************************************************)
\* good_number is a field of the record, created is not
NullFields == {"good_number", "created"}

Suffixes == {FILTER_OPS[i] : i \in 1..Len(FILTER_OPS)}

\* <<None, key, r>>: the field holds None, or is missing
NullInputs ==
    {<<None, f \o x, r>> : f \in NullFields, x \in (Suffixes \ {"__in", "__exclude"}) \cup {""},
                           r \in Scalars}
        \cup {<<None, f \o x, r>> : f \in NullFields, x \in {"__in", "__exclude"}, r \in Lists}

InitNull ==
    /\ cls \in Classes
    /\ db = EmptyDb
    /\ hist = NoHistory
    /\ calls = NoCalls
    /\ \E i \in NullInputs : ret = <<"input", "ok", i, None>>

SpecNull == InitNull /\ [][DoMatchFilters]_vars

\* C22: match_filters on a record whose field is None or missing returns
\* true or false, for every suffix and every comparison value; it does not
\* raise.
NullFieldNeverRaises ==
    Op(ret) = "match_filters" => Kind(ret) \in {"T", "F"}

(***************************************************************************)
(* The type with the default __expire__ = None: no key has a TTL, so no    *)
(* time passes that matters.                                               *)
(***************************************************************************)
PlainClasses == [layout : {"simple", "hash"}, strict : {FALSE}, expire : {None}]

InitPlain ==
    /\ cls \in PlainClasses
    /\ db = EmptyDb
    /\ ret = NoCall
    /\ hist = [valid |-> TRUE, recs |-> EmptyDb]
    /\ calls = NoCalls

NextPlain ==
    \/ DoSet
    \/ DoRefresh
    \/ DoDelete
    \/ DoMatchForPk
    \/ DoAll
    \/ DoFilter
    \/ DoMatchForValues
    \/ DoMatch
    \/ DoDeleteAll
    \/ DoDeleteFilter
    \/ Return

SpecPlain == InitPlain /\ [][NextPlain]_vars

\* C23: with no expiration configured, set() completes normally in both
\* layouts and stores the record with no TTL.
SetWithoutExpire ==
    Op(ret) = "set"
        => /\ Kind(ret) = "ok"
           /\ \A k \in DOMAIN db : db[k].ttl = None
           /\ Val(ret) \in StoredRecords(cls, db)

\* C24: with the strict-performance flag enabled, delete_all() of the Simple
\* layout raises StrictPerformanceException and leaves the store unchanged.
StrictDeleteAllRaises ==
    [][(Idle /\ Op(ret') = "delete_all" /\ cls.layout = "simple" /\ cls.strict)
        => (Kind(ret') = "StrictPerformanceException" /\ db' = db)]_vars

(***************************************************************************)
(* A Simple-layout type and a Hash-layout type with the same fields, on    *)
(* one Redis database as in the tests, each call made on both. No key      *)
(* expires: __expire__ is None, or no time passes.                         *)
(***************************************************************************)
PairClasses == [layout : {"simple"}, strict : {FALSE}, expire : {None, IntV(ExpireSecs)}]

SimpleOf(c) == [c EXCEPT !.layout = "simple"]
HashOf(c) == [c EXCEPT !.layout = "hash"]

InitPair ==
    /\ cls \in PairClasses
    /\ db = EmptyDb
    /\ ret = NoCall
    /\ hist = NoHistory
    /\ calls = NoCalls

\* the call op(arg) made on the Simple type, outcome s, then on the Hash
\* type, outcome h
Both(op, arg, s, h) ==
    /\ ret' = <<op, s.kind, arg, <<h.kind, s.val, h.val>>>>
    /\ db' = h.db
    /\ UNCHANGED <<cls, hist, calls>>

\* set() of the same record on both types
PairSet ==
    /\ Idle
    /\ \E self \in Records :
        LET s == Set(SimpleOf(cls), db, self)
        IN  Both("set", self, s, Set(HashOf(cls), s.db, self))

\* delete() of the same record on both types
PairDelete ==
    /\ Idle
    /\ \E self \in Records :
        LET s == Delete(SimpleOf(cls), db, self)
        IN  Both("delete", self, s, Delete(HashOf(cls), s.db, self))

\* delete_filter(**kwargs) on both types
PairDeleteFilter ==
    /\ Idle
    /\ \E kwargs \in Queries, ks \in Orders(AllKeys(SimpleOf(cls), db)),
          kh \in Orders(AllKeys(HashOf(cls), db)) :
        LET s == DeleteFilter(SimpleOf(cls), db, ks, kwargs)
        IN  Both("delete_filter", kwargs, s, DeleteFilter(HashOf(cls), s.db, kh, kwargs))

\* delete_all() on both types
PairDeleteAll ==
    /\ Idle
    /\ LET s == DeleteAll(SimpleOf(cls), db)
       IN  Both("delete_all", None, s, DeleteAll(HashOf(cls), s.db))

\* all() on both types
PairAll ==
    /\ Idle
    /\ \E ks \in Orders(AllKeys(SimpleOf(cls), db)), kh \in Orders(AllKeys(HashOf(cls), db)) :
        Both("all", None, All(SimpleOf(cls), db, ks), All(HashOf(cls), db, kh))

\* filter(**kwargs) on both types
PairFilter ==
    /\ Idle
    /\ \E kwargs \in Queries, ks \in Orders(AllKeys(SimpleOf(cls), db)),
          kh \in Orders(AllKeys(HashOf(cls), db)) :
        Both("filter", kwargs, Filter(SimpleOf(cls), db, ks, kwargs),
             Filter(HashOf(cls), db, kh, kwargs))

\* match_for_pk(pk) on both types
PairMatchForPk ==
    /\ Idle
    /\ \E pk \in PkArgs :
        Both("match_for_pk", pk, MatchForPk(SimpleOf(cls), db, pk),
             MatchForPk(HashOf(cls), db, pk))

\* match_for_values(**kwargs) on both types
PairMatchForValues ==
    /\ Idle
    /\ \E kwargs \in Queries, ks \in Orders(AllKeys(SimpleOf(cls), db)),
          kh \in Orders(AllKeys(HashOf(cls), db)) :
        Both("match_for_values", kwargs, MatchForValues(SimpleOf(cls), db, ks, kwargs),
             MatchForValues(HashOf(cls), db, kh, kwargs))

NextPair ==
    \/ PairSet
    \/ PairDelete
    \/ PairDeleteFilter
    \/ PairDeleteAll
    \/ PairAll
    \/ PairFilter
    \/ PairMatchForPk
    \/ PairMatchForValues
    \/ Return

SpecPair == InitPair /\ [][NextPair]_vars

\* C25: after the same sequence of set(), delete(), delete_filter() and
\* delete_all() calls, with no key expiring and the strict flag disabled, the
\* Simple type and the Hash type hold the same set of records, and all(),
\* filter(), match_for_pk() and match_for_values() return the same records or
\* raise the same error on both.
LayoutsAgree ==
    /\ StoredRecords(SimpleOf(cls), db) = StoredRecords(HashOf(cls), db)
    /\ Op(ret) \in {"all", "filter"}
          => /\ Kind(ret) = Val(ret)[1]
             /\ Kind(ret) = "ok"
                   => /\ Len(Val(ret)[2]) = Len(Val(ret)[3])
                      /\ Elements(Val(ret)[2]) = Elements(Val(ret)[3])
    /\ Op(ret) \in {"match_for_pk", "match_for_values"}
          => /\ Kind(ret) = Val(ret)[1]
             /\ Val(ret)[2] = Val(ret)[3]

\* with __expire__ = None, filter() has returned records on both types while
\* each holds two
LayoutsAgreeReached ==
    /\ cls.expire = None
    /\ Op(ret) = "filter"
    /\ Kind(ret) = "ok"
    /\ Len(Val(ret)[3]) >= 1
    /\ Cardinality(StoredRecords(SimpleOf(cls), db)) = 2
    /\ Cardinality(StoredRecords(HashOf(cls), db)) = 2
====
